---- MODULE Spec2Model ----
(***************************************************************************)
(* A model of the two data processors of the crop-yield analysis package:  *)
(*   data_processing/field_data_processor.py    (FieldDataProcessor)       *)
(*   data_processing/weather_data_processor.py  (WeatherDataProcessor)     *)
(*                                                                         *)
(* A pandas DataFrame is a record holding its column labels (a sequence)   *)
(* and its rows (sequences of cells aligned with the labels).  A cell is a *)
(* tagged value: <<"int", n>>, <<"str", s>> or <<"nan">>.  Python's None   *)
(* is the record NoneVal.  A call's outcome is Returned(v) or Raised(e).   *)
(***************************************************************************)
EXTENDS Integers, Sequences, FiniteSets, TLC

VARIABLES
    columns_to_rename,  \* FieldDataProcessor.columns_to_rename: ordered dict, a sequence of <<key, value>>
    values_to_rename,   \* FieldDataProcessor.values_to_rename: dict raw category -> corrected category
    df,                 \* FieldDataProcessor.df
    engine,             \* FieldDataProcessor.engine
    weather_map_df,     \* the local weather_map_df of FieldDataProcessor.process()
    f_pc,               \* where the client / process() of the field processor stands
    f_op,               \* the method of the field processor that ran last
    f_prev,             \* the method that ran before it
    f_ret,              \* the outcome of that method (for "process", of process() once it ends)
    f_calls,            \* number of direct method calls made by the client
    patterns,           \* WeatherDataProcessor.patterns: ordered dict, a sequence of <<key, pattern>>
    weather_df,         \* WeatherDataProcessor.weather_df
    w_pc,               \* where the client / process() of the weather processor stands
    w_op,               \* the method of the weather processor that ran last
    w_ret,              \* the outcome of that method
    w_calls,            \* number of direct method calls made by the client
    w_arg,              \* the message of the last call when it was extract_measurement, else <<>>
    consulted,          \* how many patterns that call ran re.search on
    stages              \* the methods process() of the weather processor has called, in order

fvars == <<columns_to_rename, values_to_rename, df, engine, weather_map_df, f_pc, f_op, f_prev, f_ret, f_calls>>
wvars == <<patterns, weather_df, w_pc, w_op, w_ret, w_calls, w_arg, consulted, stages>>
vars == <<columns_to_rename, values_to_rename, df, engine, weather_map_df, f_pc, f_op, f_prev, f_ret, f_calls,
          patterns, weather_df, w_pc, w_op, w_ret, w_calls, w_arg, consulted, stages>>

----------------------------------------------------------------------------
(* Bounds of the model *)

MaxRows == 2

MaxMapRows == 2

MaxWeatherRows == 3

MaxCalls == 4

MaxWeatherCalls == 3

----------------------------------------------------------------------------
(* Values *)

NoneVal == [kind |-> "None"]

IntCell(n) == <<"int", n>>

StrCell(s) == <<"str", s>>

NaN == <<"nan">>

NoneCell == <<"none">>

IsNull(c) == c[1] \in {"nan", "none"}

DataFrame(cols, rows) == [kind |-> "DataFrame", columns |-> cols, rows |-> rows]

Returned(v) == [status |-> "returned", value |-> v]

Raised(e) == [status |-> "raised", exc |-> e]

NoCall == [status |-> "none"]

IsDataFrame(t) == t.kind = "DataFrame"

Indices(n) == [i \in 1..n |-> i]

Range(s) == {s[i] : i \in DOMAIN s}

Positions(cols, name) == SelectSeq(Indices(Len(cols)), LAMBDA j : cols[j] = name)

HasColumn(t, name) == \E j \in DOMAIN t.columns : t.columns[j] = name

ColumnIndex(t, name) == Positions(t.columns, name)[1]

Cell(t, r, name) == t.rows[r][ColumnIndex(t, name)]

RECURSIVE Concat(_)
Concat(ss) == IF ss = <<>> THEN <<>> ELSE Head(ss) \o Concat(Tail(ss))

AbsInt(n) == IF n < 0 THEN 0 - n ELSE n

----------------------------------------------------------------------------
(* pandas operations used by FieldDataProcessor *)

\* DataFrame.rename(columns=mapping): every label that is a key of the mapping
\* is replaced, all at once; labels that are no key are kept (errors="ignore").
Rename(t, mapping) ==
    DataFrame([j \in DOMAIN t.columns |->
                  IF t.columns[j] \in DOMAIN mapping THEN mapping[t.columns[j]] ELSE t.columns[j]],
              t.rows)

\* a slip: the sign is flipped instead of dropped
NegCell(c) == IF c[1] = "int" THEN IntCell(0 - c[2]) ELSE c

\* Series.abs() of one cell
AbsCell(c) == IF c[1] = "int" THEN IntCell(AbsInt(c[2])) ELSE c

\* df[name] = [f(cell) for each cell of df[name]]
MapColumn(t, name, f(_)) ==
    LET k == ColumnIndex(t, name)
    IN  DataFrame(t.columns,
                  [r \in DOMAIN t.rows |->
                      [j \in DOMAIN t.columns |-> IF j = k THEN f(t.rows[r][j]) ELSE t.rows[r][j]]])

\* the rows of right whose key equals the key of left's row r, in right's order
Matches(left, r, right, key) ==
    SelectSeq(Indices(Len(right.rows)),
              LAMBDA q : Cell(right, q, key) = Cell(left, r, key))

\* a slip: how="inner", the rows of left without a match are dropped
MergeInner(left, right, key) ==
    IF ~HasColumn(left, key) \/ ~HasColumn(right, key) THEN Raised("KeyError")
    ELSE
    LET rpos    == SelectSeq(Indices(Len(right.columns)), LAMBDA j : right.columns[j] # key)
        joined(r) ==
            LET m == Matches(left, r, right, key)
            IN  [i \in DOMAIN m |-> left.rows[r] \o [k \in DOMAIN rpos |-> right.rows[m[i]][rpos[k]]]]
    IN  Returned(DataFrame(left.columns \o [k \in DOMAIN rpos |-> right.columns[rpos[k]]],
                           Concat([r \in DOMAIN left.rows |-> joined(r)])))

\* DataFrame.merge(right, on=key, how="left")
Merge(left, right, key) ==
    IF ~HasColumn(left, key) \/ ~HasColumn(right, key) THEN Raised("KeyError")
    ELSE
    LET rpos    == SelectSeq(Indices(Len(right.columns)), LAMBDA j : right.columns[j] # key)
        overlap == {c \in Range(left.columns) : c # key /\ \E j \in Range(rpos) : right.columns[j] = c}
        lcols   == [j \in DOMAIN left.columns |->
                       IF left.columns[j] \in overlap THEN left.columns[j] \o "_x" ELSE left.columns[j]]
        rcols   == [k \in DOMAIN rpos |->
                       IF right.columns[rpos[k]] \in overlap
                       THEN right.columns[rpos[k]] \o "_y" ELSE right.columns[rpos[k]]]
        nulls   == [k \in DOMAIN rpos |-> NaN]
        joined(r) ==
            LET m == Matches(left, r, right, key)
            IN  IF m = <<>> THEN << left.rows[r] \o nulls >>
                ELSE [i \in DOMAIN m |-> left.rows[r] \o [k \in DOMAIN rpos |-> right.rows[m[i]][rpos[k]]]]
    IN  Returned(DataFrame(lcols \o rcols, Concat([r \in DOMAIN left.rows |-> joined(r)])))

\* DataFrame.drop(columns=name), errors="raise"
Drop(t, name) ==
    IF ~HasColumn(t, name) THEN Raised("KeyError")
    ELSE LET keep == SelectSeq(Indices(Len(t.columns)), LAMBDA j : t.columns[j] # name)
         IN  Returned(DataFrame([k \in DOMAIN keep |-> t.columns[keep[k]]],
                                [r \in DOMAIN t.rows |-> [k \in DOMAIN keep |-> t.rows[r][keep[k]]]]))

----------------------------------------------------------------------------
(* FieldDataProcessor: its methods, as functions of the state they read.   *)
(* Each yields [df |-> the new self.df, ret |-> the call's outcome].       *)

\* temp_name = "__temp_name_for_swap__"; while temp_name in df.columns: temp_name += "_"
RECURSIVE FreshName(_, _)
FreshName(temp_name, cols) ==
    IF temp_name \in Range(cols) THEN FreshName(temp_name \o "_", cols) ELSE temp_name

\* a slip: the placeholder is taken without probing the columns
temp_name_unprobed(cols) == "__temp_name_for_swap__"

temp_name_for_swap(cols) == FreshName("__temp_name_for_swap__", cols)

rename_columns(self_df, ctr) ==
    IF ~IsDataFrame(self_df) THEN [df |-> self_df, ret |-> Raised("AttributeError")]
    ELSE
    LET column1   == ctr[1][1]
        column2   == ctr[1][2]
        temp_name == temp_name_for_swap(self_df.columns)
        \* {column1: temp_name, column2: column1}: a repeated key keeps the later value
        first     == (column2 :> column1) @@ (column1 :> temp_name)
        swapped   == Rename(Rename(self_df, first), (temp_name :> column2))
    IN  [df |-> swapped, ret |-> Returned(swapped)]

\* lambda crop: self.values_to_rename.get(crop, crop)
corrected_value(vtr, c) == IF c[1] = "str" /\ c[2] \in DOMAIN vtr THEN StrCell(vtr[c[2]]) ELSE c

apply_corrections(self_df, vtr, column_name, abs_column) ==
    IF ~IsDataFrame(self_df) THEN [df |-> self_df, ret |-> Raised("TypeError")]
    ELSE IF ~HasColumn(self_df, abs_column) THEN [df |-> self_df, ret |-> Raised("KeyError")]
    ELSE IF \E r \in DOMAIN self_df.rows : Cell(self_df, r, abs_column)[1] = "str"
         THEN [df |-> self_df, ret |-> Raised("TypeError")]
    ELSE
    LET absed == MapColumn(self_df, abs_column, AbsCell)
    IN  IF ~HasColumn(absed, column_name) THEN [df |-> absed, ret |-> Raised("KeyError")]
        ELSE LET mapped == MapColumn(absed, column_name, LAMBDA c : corrected_value(vtr, c))
             IN  [df |-> mapped, ret |-> Returned(mapped)]

\* what process() hands back when it falls off its last statement
process_result(self_df) == NoneVal

----------------------------------------------------------------------------
(* What the ingestion collaborators (data_processing.data_ingestion) can    *)
(* hand back: a row set, or a failure.                                      *)

FieldIds == {1, 2}

\* the rows a source table is made of: <<Field_ID, Elevation, crop name>>
FieldRows == { <<1, -5, "cassaval">>, <<1, 5, "tea">>, <<2, -5, "tea">>, <<2, 5, "cassaval">> }

SeqsUpTo(S, n) == UNION {[1..k -> S] : k \in 0..n}

BaseColumns == <<"Field_ID", "Elevation", "Annual_yield", "Crop_type">>

FieldLayouts ==
    { BaseColumns,
      BaseColumns \o <<"__temp_name_for_swap__">>,
      BaseColumns \o <<"__temp_name_for_swap__", "__temp_name_for_swap___">>,
      <<"Unnamed: 0">> \o BaseColumns,
      <<"Elevation", "Annual_yield", "Crop_type">> }

\* The source table stores the crop names under Annual_yield and the yields
\* under Crop_type, which is what the configured swap repairs.
FieldCell(col, a, i) ==
    CASE col = "Field_ID"     -> IntCell(a[1])
      [] col = "Elevation"    -> IntCell(a[2])
      [] col = "Annual_yield" -> StrCell(a[3])
      [] col = "Crop_type"    -> IntCell(10 * i)
      [] col = "Unnamed: 0"   -> IntCell(i - 1)
      [] OTHER                -> StrCell("x")

FieldTables ==
    { DataFrame(cols, [i \in DOMAIN attrs |-> [j \in DOMAIN cols |-> FieldCell(cols[j], attrs[i], i)]]) :
        cols \in FieldLayouts, attrs \in SeqsUpTo(FieldRows, MaxRows) }

MapLayouts ==
    { <<"Unnamed: 0", "Field_ID", "Weather_station">>,
      <<"Field_ID", "Weather_station">> }

MapCell(col, fid, i) ==
    CASE col = "Field_ID"        -> IntCell(fid)
      [] col = "Weather_station" -> IntCell(i)
      [] OTHER                   -> IntCell(i - 1)

MapTables ==
    { DataFrame(cols, [i \in DOMAIN fids |-> [j \in DOMAIN cols |-> MapCell(cols[j], fids[i], i)]]) :
        cols \in MapLayouts, fids \in SeqsUpTo(FieldIds, MaxMapRows) }

Engine == [kind |-> "Engine"]

\* create_db_engine(db_path): an engine, or a failure
create_db_engine == {Returned(Engine), Raised("SourceUnavailable")}

\* query_data(engine, sql_query): a row set, or a failure
query_data == {Returned(t) : t \in FieldTables} \cup {Raised("SourceUnavailable")}

\* read_from_web_CSV(weather_mapping_csv): a row set, or a failure
read_mapping_csv == {Returned(t) : t \in MapTables} \cup {Raised("SourceUnavailable")}

SwapYieldAndCrop == << <<"Annual_yield", "Crop_type">>, <<"Crop_type", "Annual_yield">> >>

RenameConfigs == { SwapYieldAndCrop, << <<"Annual_yield", "__temp_name_for_swap__">> >> }

CropCorrections == ("cassaval" :> "cassava") @@ ("wheatn" :> "wheat") @@ ("teaa" :> "tea")

ValueConfigs == { CropCorrections, ("tea" :> "cassaval") }

----------------------------------------------------------------------------
(* FieldDataProcessor: construction and the steps of its methods *)

FieldConfigUnchanged == UNCHANGED <<columns_to_rename, values_to_rename>>

\* ingest_sql_data(): engine, then df, are assigned as far as the collaborators succeed
IngestEffect(ok, bad) ==
    /\ f_op' = "ingest_sql_data"
    /\ f_prev' = f_op
    /\ \/ \E e \in create_db_engine :
             /\ e.status = "raised"
             /\ UNCHANGED <<engine, df>>
             /\ f_ret' = e
             /\ f_pc' = bad
       \/ \E e \in create_db_engine, q \in query_data :
             /\ e.status = "returned"
             /\ engine' = e.value
             /\ f_ret' = q
             /\ IF q.status = "raised"
                THEN UNCHANGED df /\ f_pc' = bad
                ELSE df' = q.value /\ f_pc' = ok

\* a method that assigns self.df and returns it, or raises
MethodEffect(op, res, ok, bad) ==
    /\ f_op' = op
    /\ f_prev' = f_op
    /\ df' = res.df
    /\ f_ret' = res.ret
    /\ f_pc' = IF res.ret.status = "raised" THEN bad ELSE ok

\* The client either runs process() on the fresh instance or calls the
\* methods one by one, ingesting once.
DirectCall ==
    /\ f_pc = "idle"
    /\ f_calls < MaxCalls
    /\ f_calls' = f_calls + 1

CallIngestSqlData ==
    /\ DirectCall
    /\ engine = NoneVal
    /\ IngestEffect(f_pc, "failed")
    /\ UNCHANGED weather_map_df
    /\ FieldConfigUnchanged
    /\ UNCHANGED wvars

CallRenameColumns ==
    /\ DirectCall
    /\ MethodEffect("rename_columns", rename_columns(df, columns_to_rename), f_pc, "failed")
    /\ UNCHANGED <<engine, weather_map_df>>
    /\ FieldConfigUnchanged
    /\ UNCHANGED wvars

CallApplyCorrections ==
    /\ DirectCall
    /\ MethodEffect("apply_corrections",
                    apply_corrections(df, values_to_rename, "Crop_type", "Elevation"), f_pc, "failed")
    /\ UNCHANGED <<engine, weather_map_df>>
    /\ FieldConfigUnchanged
    /\ UNCHANGED wvars

\* process(), line 155
ProcessIngest ==
    /\ f_pc = "idle"
    /\ f_calls = 0
    /\ IngestEffect("p_ingested", "p_failed")
    /\ UNCHANGED <<weather_map_df, f_calls>>
    /\ FieldConfigUnchanged
    /\ UNCHANGED wvars

\* process(), line 156
ProcessRename ==
    /\ f_pc = "p_ingested"
    /\ MethodEffect("rename_columns", rename_columns(df, columns_to_rename), "p_renamed", "p_failed")
    /\ UNCHANGED <<engine, weather_map_df, f_calls>>
    /\ FieldConfigUnchanged
    /\ UNCHANGED wvars

\* process(), line 157
ProcessCorrect ==
    /\ f_pc = "p_renamed"
    /\ MethodEffect("apply_corrections",
                    apply_corrections(df, values_to_rename, "Crop_type", "Elevation"),
                    "p_corrected", "p_failed")
    /\ UNCHANGED <<engine, weather_map_df, f_calls>>
    /\ FieldConfigUnchanged
    /\ UNCHANGED wvars

\* process(), line 158
ProcessFetchMapping ==
    /\ f_pc = "p_corrected"
    /\ \E w \in read_mapping_csv :
          /\ f_op' = "weather_station_mapping"
          /\ f_prev' = f_op
          /\ f_ret' = w
          /\ IF w.status = "raised"
             THEN f_pc' = "p_failed" /\ UNCHANGED weather_map_df
             ELSE f_pc' = "p_fetched" /\ weather_map_df' = w.value
    /\ UNCHANGED <<df, engine, f_calls>>
    /\ FieldConfigUnchanged
    /\ UNCHANGED wvars

\* process(), line 159
ProcessMerge ==
    /\ f_pc = "p_fetched"
    /\ LET m == Merge(df, weather_map_df, "Field_ID")
       IN  /\ f_op' = "merge"
           /\ f_prev' = f_op
           /\ f_ret' = m
           /\ IF m.status = "raised"
              THEN f_pc' = "p_failed" /\ UNCHANGED df
              ELSE f_pc' = "p_merged" /\ df' = m.value
    /\ UNCHANGED <<engine, weather_map_df, f_calls>>
    /\ FieldConfigUnchanged
    /\ UNCHANGED wvars

\* process(), line 160 and the end of the method
ProcessDrop ==
    /\ f_pc = "p_merged"
    /\ LET d == Drop(df, "Unnamed: 0")
       IN  IF d.status = "raised"
           THEN /\ f_op' = "drop"
                /\ f_ret' = d
                /\ f_pc' = "p_failed"
                /\ UNCHANGED df
           ELSE /\ f_op' = "process"
                /\ df' = d.value
                /\ f_ret' = Returned(process_result(d.value))
                /\ f_pc' = "done"
    /\ f_prev' = f_op
    /\ UNCHANGED <<engine, weather_map_df, f_calls>>
    /\ FieldConfigUnchanged
    /\ UNCHANGED wvars

FieldNext ==
    \/ CallIngestSqlData
    \/ CallRenameColumns
    \/ CallApplyCorrections
    \/ ProcessIngest
    \/ ProcessRename
    \/ ProcessCorrect
    \/ ProcessFetchMapping
    \/ ProcessMerge
    \/ ProcessDrop

----------------------------------------------------------------------------
(* Python's re and float on the fragment the patterns use.  A text is a    *)
(* sequence of characters.  A pattern is a sequence of alternatives        *)
(* (a1|a2|...), an alternative a sequence of items: <<"lit", c>> matches   *)
(* the character c, <<"grp", "d">> is the group (\d+) and <<"grp", "w">>   *)
(* the group (\w+).  A group is never followed by a literal of its class,  *)
(* so the greedy run is the match.                                         *)

Digits == {"0", "1", "2", "3", "4", "5", "6", "7", "8", "9"}

Letters == {"m", "C", "P", "W", "x"}

InClass(ch, class) == IF class = "d" THEN ch \in Digits ELSE ch \in Digits \cup Letters

DigitValue(ch) ==
    CASE ch = "0" -> 0 [] ch = "1" -> 1 [] ch = "2" -> 2 [] ch = "3" -> 3 [] ch = "4" -> 4
      [] ch = "5" -> 5 [] ch = "6" -> 6 [] ch = "7" -> 7 [] ch = "8" -> 8 [] ch = "9" -> 9

\* length of the longest run of characters of the class that starts at pos
RECURSIVE RunLength(_, _, _)
RunLength(text, pos, class) ==
    IF pos <= Len(text) /\ InClass(text[pos], class)
    THEN 1 + RunLength(text, pos + 1, class) ELSE 0

\* match the items at pos: [ok, caps], caps the texts the groups captured
RECURSIVE MatchItems(_, _, _)
MatchItems(items, text, pos) ==
    IF items = <<>> THEN [ok |-> TRUE, caps |-> <<>>]
    ELSE IF Head(items)[1] = "lit"
    THEN IF pos <= Len(text) /\ text[pos] = Head(items)[2]
         THEN MatchItems(Tail(items), text, pos + 1)
         ELSE [ok |-> FALSE, caps |-> <<>>]
    ELSE LET n == RunLength(text, pos, Head(items)[2])
         IN  IF n = 0 THEN [ok |-> FALSE, caps |-> <<>>]
             ELSE LET rest == MatchItems(Tail(items), text, pos + n)
                  IN  [ok |-> rest.ok,
                       caps |-> << StrCell(SubSeq(text, pos, pos + n - 1)) >> \o rest.caps]

GroupCount(items) == Len(SelectSeq(items, LAMBDA it : it[1] = "grp"))

\* the match re.search reports, given every <<start, alternative>> that matches:
\* the leftmost start, there the first alternative; groups() has None for the
\* groups of the other alternatives
SearchResult(pattern, text, hits) ==
    IF hits = {} THEN [matched |-> FALSE, groups |-> <<>>]
    ELSE LET start == CHOOSE p \in {h[1] : h \in hits} : \A h \in hits : p <= h[1]
             alt   == CHOOSE a \in {h[2] : h \in {g \in hits : g[1] = start}} :
                          \A h \in hits : h[1] = start => a <= h[2]
         IN  [matched |-> TRUE,
              groups  |-> Concat([i \in DOMAIN pattern |->
                             IF i = alt THEN MatchItems(pattern[i], text, start).caps
                             ELSE [k \in 1..GroupCount(pattern[i]) |-> NoneCell]])]

\* re.search(pattern, text)
re_search(pattern, text) ==
    SearchResult(pattern, text,
                 {h \in (1..(Len(text) + 1)) \X DOMAIN pattern : MatchItems(pattern[h[2]], text, h[1]).ok})

RECURSIVE DecimalValue(_)
DecimalValue(text) ==
    IF text = <<>> THEN 0
    ELSE 10 * DecimalValue(SubSeq(text, 1, Len(text) - 1)) + DigitValue(text[Len(text)])

\* float(text)
float(text) ==
    IF text # <<>> /\ \A i \in DOMAIN text : text[i] \in Digits
    THEN Returned(IntCell(DecimalValue(text)))
    ELSE Raised("ValueError")

----------------------------------------------------------------------------
(* WeatherDataProcessor: its methods *)

\* float(next((x for x in match.groups() if x is not None)))
first_capture_as_float(groups) ==
    LET found == SelectSeq(groups, LAMBDA x : x # NoneCell)
    IN  IF found = <<>> THEN Raised("StopIteration") ELSE float(found[1][2])

\* return key, float(...): the pair, unless float or next raised
KeyAndValue(key, v) == IF v.status = "raised" THEN v ELSE Returned(<<StrCell(key), v.value>>)

\* for key, pattern in self.patterns.items(): ... from the i-th pattern on
RECURSIVE ExtractFrom(_, _, _)
\* if match: return key, float(...)   else: on to the next pattern
AfterSearch(pats, i, message, match) ==
    IF match.matched
    THEN [ret |-> KeyAndValue(pats[i][1], first_capture_as_float(match.groups)), consulted |-> i]
    ELSE ExtractFrom(pats, i + 1, message)

ExtractFrom(pats, i, message) ==
    IF i > Len(pats)
    THEN [ret |-> Returned(<<NoneCell, NoneCell>>), consulted |-> Len(pats)]
    ELSE AfterSearch(pats, i, message, re_search(pats[i][2], message))

\* a slip: the loop goes on after a match, so the last matching pattern wins
RECURSIVE ExtractLast(_, _, _)
ExtractLast(pats, i, message) ==
    IF i = 0
    THEN [ret |-> Returned(<<NoneCell, NoneCell>>), consulted |-> Len(pats)]
    ELSE IF re_search(pats[i][2], message).matched
    THEN [ret |-> KeyAndValue(pats[i][1], first_capture_as_float(re_search(pats[i][2], message).groups)),
          consulted |-> Len(pats)]
    ELSE ExtractLast(pats, i - 1, message)

extract_last_match(pats, message) == ExtractLast(pats, Len(pats), message)

extract_measurement(pats, message) == ExtractFrom(pats, 1, message)

\* df[name] = values: a new last column, or the existing one overwritten
SetColumn(t, name, values) ==
    IF HasColumn(t, name)
    THEN LET k == ColumnIndex(t, name)
         IN  DataFrame(t.columns,
                       [r \in DOMAIN t.rows |->
                           [j \in DOMAIN t.columns |-> IF j = k THEN values[r] ELSE t.rows[r][j]]])
    ELSE DataFrame(Append(t.columns, name),
                   [r \in DOMAIN t.rows |-> Append(t.rows[r], values[r])])

\* self.weather_df["Measurement"], self.weather_df["Value"] = zip(*result)
AssignResults(wdf, result) ==
    LET failed == SelectSeq(Indices(Len(result)), LAMBDA r : result[r].status = "raised")
    IN  IF failed # <<>> THEN [df |-> wdf, ret |-> result[failed[1]]]
        \* zip(*result) of no rows yields nothing to unpack
        ELSE IF result = <<>> THEN [df |-> wdf, ret |-> Raised("ValueError")]
        ELSE LET new == SetColumn(SetColumn(wdf, "Measurement", [r \in DOMAIN result |-> result[r].value[1]]),
                                  "Value", [r \in DOMAIN result |-> result[r].value[2]])
             IN  [df |-> new, ret |-> Returned(new)]

\* a slip: the extracted columns are never assigned
process_messages_unassigned(wdf, pats) == [df |-> wdf, ret |-> Returned(wdf)]

process_messages(wdf, pats) ==
    IF ~IsDataFrame(wdf) THEN [df |-> wdf, ret |-> Returned(wdf)]
    ELSE IF ~HasColumn(wdf, "Message") THEN [df |-> wdf, ret |-> Raised("KeyError")]
    ELSE AssignResults(wdf, [r \in DOMAIN wdf.rows |->
                                extract_measurement(pats, Cell(wdf, r, "Message")[2]).ret])

RECURSIVE GCD(_, _)
GCD(a, b) == IF b = 0 THEN a ELSE GCD(b, a % b)

RECURSIVE SeqSum(_)
SeqSum(s) == IF s = <<>> THEN 0 ELSE Head(s)[2] + SeqSum(Tail(s))

\* Series.mean(): the sum over the count, as a reduced fraction
Mean(values) ==
    LET total == SeqSum(values)
        g     == GCD(total, Len(values))
    IN  <<"frac", total \div g, Len(values) \div g>>

\* the aggregated table: index (stations), names (measurements), cell
PivotTable(index, names, cell) == [kind |-> "DataFrame", index |-> index, names |-> names, cell |-> cell]

\* a slip: a group without values is filled with zero
MeanOrZero(values) == IF values = <<>> THEN <<"frac", 0, 1>> ELSE Mean(values)

\* the mean of the observed values of one group, null when it has none
MeanOrNull(values) == IF values = <<>> THEN NaN ELSE Mean(values)

\* the Value cells of the rows of group (s, m), nulls skipped
GroupValues(wdf, s, m) ==
    LET rows == SelectSeq(wdf.rows, LAMBDA row :
                    /\ row[ColumnIndex(wdf, "Weather_station_ID")] = s
                    /\ row[ColumnIndex(wdf, "Measurement")] = m
                    /\ ~IsNull(row[ColumnIndex(wdf, "Value")]))
    IN  [k \in DOMAIN rows |-> rows[k][ColumnIndex(wdf, "Value")]]

\* unstack(): one row per station and one column per measurement of the groups
Unstack(wdf, keys) ==
    PivotTable({k[1] : k \in keys}, {k[2] : k \in keys},
               [c \in {k[1] : k \in keys} \X {k[2] : k \in keys} |->
                   MeanOrNull(GroupValues(wdf, c[1], c[2]))])

\* groupby(by=[...])["Value"].mean().unstack(): rows with a null key form no group
GroupMeans(wdf) ==
    Unstack(wdf, { <<row[ColumnIndex(wdf, "Weather_station_ID")], row[ColumnIndex(wdf, "Measurement")]>> :
                     row \in {x \in Range(wdf.rows) :
                                 /\ ~IsNull(x[ColumnIndex(wdf, "Weather_station_ID")])
                                 /\ ~IsNull(x[ColumnIndex(wdf, "Measurement")])} })

\* The outcomes of the guarded branch of calculate_means().  When no row has
\* a measurement the Value column holds only None (dtype object): whether the
\* mean of no groups is an empty table or an error is up to the pandas version.
MeansOf(wdf) ==
    IF ~HasColumn(wdf, "Weather_station_ID") \/ ~HasColumn(wdf, "Measurement")
       \/ ~HasColumn(wdf, "Value")
    THEN {Raised("KeyError")}
    ELSE IF \A r \in DOMAIN wdf.rows : IsNull(Cell(wdf, r, "Value"))
    THEN {Returned(GroupMeans(wdf)), Raised("DataError")}
    ELSE {Returned(GroupMeans(wdf))}

\* a slip: no "is loaded" guard, None.groupby fails
calculate_means_unguarded(wdf) ==
    IF ~IsDataFrame(wdf) THEN {Raised("AttributeError")} ELSE MeansOf(wdf)

\* the outcomes of calculate_means()
calculate_means(wdf) ==
    IF ~IsDataFrame(wdf) THEN {Returned(NoneVal)} ELSE MeansOf(wdf)

----------------------------------------------------------------------------
(* Weather inputs: the configured patterns, the messages, the tables *)

Lit(c) == <<"lit", c>>

NumberGroup == <<"grp", "d">>

WordGroup == <<"grp", "w">>

\* (\d+)m   (\d+)C   =(\d+)|P(\d+)
StationPatterns ==
    << <<"Rainfall",        << <<NumberGroup, Lit("m")>> >> >>,
       <<"Temperature",     << <<NumberGroup, Lit("C")>> >> >>,
       <<"Pollution_level", << <<Lit("="), NumberGroup>>, <<Lit("P"), NumberGroup>> >> >> >>

\* !   W(\w+)   (\d+)C
AlertPatterns ==
    << <<"Alert",       << <<Lit("!")>> >> >>,
       <<"Wind",        << <<Lit("W"), WordGroup>> >> >>,
       <<"Temperature", << <<NumberGroup, Lit("C")>> >> >> >>

PatternConfigs == { StationPatterns, AlertPatterns, <<>> }

Messages ==
    { <<"5", "m">>, <<"1", "2", "C">>, <<"=", "7">>, <<"P", "3">>, <<"5", "m", "=", "7">>,
      <<"3", "C", "5", "m">>, <<"x">>, <<"!">>, <<"W", "x">>, <<"W", "9">>, <<>> }

TableMessages == { <<"5", "m">>, <<"8", "m">>, <<"1", "2", "C">>, <<"!">> }

Stations == {0, 1}

WeatherTables ==
    { DataFrame(<<"Weather_station_ID", "Message">>,
                [i \in DOMAIN rs |-> <<IntCell(rs[i][1]), StrCell(rs[i][2])>>]) :
        rs \in SeqsUpTo(Stations \X TableMessages, MaxWeatherRows) }

\* read_from_web_CSV(weather_csv_path): a row set, or a failure
read_weather_csv == {Returned(t) : t \in WeatherTables} \cup {Raised("SourceUnavailable")}

----------------------------------------------------------------------------
(* WeatherDataProcessor: the steps of its methods *)

WeatherConfigUnchanged == UNCHANGED patterns

\* The client either runs process() on the fresh instance or calls the
\* methods one by one, loading once; after process() it may go on calling.
WeatherDirectCall ==
    /\ w_pc \in {"idle", "done"}
    /\ w_calls < MaxWeatherCalls
    /\ w_calls' = w_calls + 1

\* w_arg and consulted describe the last call when it was extract_measurement
NotAnExtraction == w_arg' = <<>> /\ consulted' = 0

AfterCall(ret) == IF ret.status = "raised" THEN "failed" ELSE w_pc

\* weather_station_mapping(): assigns weather_df, returns nothing
LoadEffect(w, ok, bad) ==
    /\ w_op' = "weather_station_mapping"
    /\ IF w.status = "raised"
       THEN /\ UNCHANGED weather_df
            /\ w_ret' = w
            /\ w_pc' = bad
       ELSE /\ weather_df' = w.value
            /\ w_ret' = Returned(NoneVal)
            /\ w_pc' = ok

CallWeatherStationMapping ==
    /\ WeatherDirectCall
    /\ weather_df = NoneVal
    /\ \E w \in read_weather_csv : LoadEffect(w, w_pc, "failed")
    /\ NotAnExtraction
    /\ UNCHANGED stages
    /\ WeatherConfigUnchanged
    /\ UNCHANGED fvars

\* extract_measurement(message): reads the patterns only
CallExtractMeasurement ==
    /\ WeatherDirectCall
    /\ weather_df = NoneVal
    /\ \E message \in Messages :
          LET e == extract_measurement(patterns, message)
          IN  /\ w_op' = "extract_measurement"
              /\ w_arg' = message
              /\ w_ret' = e.ret
              /\ consulted' = e.consulted
              /\ w_pc' = AfterCall(e.ret)
    /\ UNCHANGED <<weather_df, stages>>
    /\ WeatherConfigUnchanged
    /\ UNCHANGED fvars

CallProcessMessages ==
    /\ WeatherDirectCall
    /\ LET r == process_messages(weather_df, patterns)
       IN  /\ w_op' = "process_messages"
           /\ weather_df' = r.df
           /\ w_ret' = r.ret
           /\ w_pc' = AfterCall(r.ret)
    /\ NotAnExtraction
    /\ UNCHANGED stages
    /\ WeatherConfigUnchanged
    /\ UNCHANGED fvars

CallCalculateMeans ==
    /\ WeatherDirectCall
    /\ \E o \in calculate_means(weather_df) :
          /\ w_op' = "calculate_means"
          /\ w_ret' = o
          /\ w_pc' = AfterCall(o)
    /\ NotAnExtraction
    /\ UNCHANGED <<weather_df, stages>>
    /\ WeatherConfigUnchanged
    /\ UNCHANGED fvars

\* process(), line 141
WeatherProcessLoad ==
    /\ w_pc = "idle"
    /\ w_calls = 0
    /\ \E w \in read_weather_csv : LoadEffect(w, "p_loaded", "p_failed")
    /\ stages' = Append(stages, "weather_station_mapping")
    /\ NotAnExtraction
    /\ UNCHANGED w_calls
    /\ WeatherConfigUnchanged
    /\ UNCHANGED fvars

\* process(), lines 142-143 and the end of the method
WeatherProcessMessages ==
    /\ w_pc = "p_loaded"
    /\ LET r == process_messages(weather_df, patterns)
       IN  /\ weather_df' = r.df
           /\ IF r.ret.status = "raised"
              THEN /\ w_op' = "process_messages"
                   /\ w_ret' = r.ret
                   /\ w_pc' = "p_failed"
              ELSE /\ w_op' = "process"
                   /\ w_ret' = Returned(NoneVal)
                   /\ w_pc' = "done"
    /\ stages' = Append(stages, "process_messages")
    /\ NotAnExtraction
    /\ UNCHANGED w_calls
    /\ WeatherConfigUnchanged
    /\ UNCHANGED fvars

WeatherNext ==
    \/ CallWeatherStationMapping
    \/ CallExtractMeasurement
    \/ CallProcessMessages
    \/ CallCalculateMeans
    \/ WeatherProcessLoad
    \/ WeatherProcessMessages

----------------------------------------------------------------------------
(* Specifications *)

\* both processors, freshly constructed
Init ==
    /\ columns_to_rename \in RenameConfigs
    /\ values_to_rename \in ValueConfigs
    /\ df = NoneVal
    /\ engine = NoneVal
    /\ weather_map_df = NoneVal
    /\ f_pc = "idle"
    /\ f_op = "__init__"
    /\ f_prev = "__init__"
    /\ f_ret = NoCall
    /\ f_calls = 0
    /\ patterns \in PatternConfigs
    /\ weather_df = NoneVal
    /\ w_pc = "idle"
    /\ w_op = "__init__"
    /\ w_ret = NoCall
    /\ w_calls = 0
    /\ w_arg = <<>>
    /\ consulted = 0
    /\ stages = <<>>

Next == FieldNext \/ WeatherNext

Spec == Init /\ [][Next]_vars

\* a FieldDataProcessor at work, beside an idle WeatherDataProcessor
FieldInit ==
    /\ columns_to_rename \in RenameConfigs
    /\ values_to_rename \in ValueConfigs
    /\ df = NoneVal
    /\ engine = NoneVal
    /\ weather_map_df = NoneVal
    /\ f_pc = "idle"
    /\ f_op = "__init__"
    /\ f_prev = "__init__"
    /\ f_ret = NoCall
    /\ f_calls = 0
    /\ patterns = StationPatterns
    /\ weather_df = NoneVal
    /\ w_pc = "idle"
    /\ w_op = "__init__"
    /\ w_ret = NoCall
    /\ w_calls = 0
    /\ w_arg = <<>>
    /\ consulted = 0
    /\ stages = <<>>

FieldSpec == FieldInit /\ [][FieldNext]_vars

\* a WeatherDataProcessor at work, beside an idle FieldDataProcessor
WeatherInit ==
    /\ columns_to_rename = SwapYieldAndCrop
    /\ values_to_rename = CropCorrections
    /\ df = NoneVal
    /\ engine = NoneVal
    /\ weather_map_df = NoneVal
    /\ f_pc = "idle"
    /\ f_op = "__init__"
    /\ f_prev = "__init__"
    /\ f_ret = NoCall
    /\ f_calls = 0
    /\ patterns \in PatternConfigs
    /\ weather_df = NoneVal
    /\ w_pc = "idle"
    /\ w_op = "__init__"
    /\ w_ret = NoCall
    /\ w_calls = 0
    /\ w_arg = <<>>
    /\ consulted = 0
    /\ stages = <<>>

WeatherSpec == WeatherInit /\ [][WeatherNext]_vars

----------------------------------------------------------------------------
(* Properties of FieldDataProcessor, checked under FieldSpec *)

SwapA == columns_to_rename[1][1]

SwapB == columns_to_rename[1][2]

\* a step of the field processor that runs the method op
FieldStepOf(op) == f_op' = op /\ <<f_pc, f_calls>> # <<f_pc', f_calls'>>

UniqueLabels(t) == Cardinality(Range(t.columns)) = Len(t.columns)

RECURSIVE SetSum(_)
SetSum(f) ==
    IF DOMAIN f = {} THEN 0
    ELSE LET x == CHOOSE y \in DOMAIN f : TRUE
         IN  f[x] + SetSum([y \in DOMAIN f \ {x} |-> f[y]])

\* new is old with the labels a and b exchanged and nothing else touched
SwapPost(old, new, a, b) ==
    /\ IsDataFrame(new)
    /\ UniqueLabels(new)
    /\ Range(new.columns) = Range(old.columns)
    /\ Len(new.rows) = Len(old.rows)
    /\ \A r \in DOMAIN old.rows :
          /\ Cell(new, r, b) = Cell(old, r, a)
          /\ Cell(new, r, a) = Cell(old, r, b)
          /\ \A c \in Range(old.columns) \ {a, b} : Cell(new, r, c) = Cell(old, r, c)

\* C2: on a table that has both configured columns A and B, also when it has
\* columns named like the placeholder, one rename_columns() puts every value
\* of A under B and every value of B under A in the same row, keeps the set
\* of column names (no placeholder remains) and touches nothing else.
C2_SwapOnce ==
    [][ (FieldStepOf("rename_columns") /\ IsDataFrame(df)
            /\ HasColumn(df, SwapA) /\ HasColumn(df, SwapB))
        => (f_ret' = Returned(df') /\ SwapPost(df, df', SwapA, SwapB)) ]_vars

\* process() has swapped Annual_yield and Crop_type on a table with rows that
\* has a column named exactly like the placeholder
C2_Witness ==
    /\ f_pc = "p_renamed"
    /\ columns_to_rename = SwapYieldAndCrop
    /\ HasColumn(df, "__temp_name_for_swap__")
    /\ HasColumn(df, SwapA) /\ HasColumn(df, SwapB)
    /\ Len(df.rows) > 0
    /\ Cell(df, 1, "Crop_type")[1] = "str"

\* new is old with Elevation made absolute, the keys of vtr replaced under
\* Crop_type, and nothing else touched
CorrectPost(old, new, vtr) ==
    /\ IsDataFrame(new)
    /\ new.columns = old.columns
    /\ Len(new.rows) = Len(old.rows)
    /\ \A r \in DOMAIN old.rows : \A j \in DOMAIN old.columns :
          LET was == old.rows[r][j]
              now == new.rows[r][j]
          IN  IF old.columns[j] = "Elevation"
              THEN /\ now[1] = "int"
                   /\ now[2] >= 0
                   /\ now[2] \in {was[2], 0 - was[2]}
              ELSE IF old.columns[j] = "Crop_type" /\ was[1] = "str" /\ was[2] \in DOMAIN vtr
              THEN now = StrCell(vtr[was[2]])
              ELSE now = was

\* C9: apply_corrections() replaces each elevation by its absolute value and
\* each category that is a key of the mapping by its mapped value, leaves the
\* other categories and columns as they were; applied again right after, it
\* leaves the elevation column as the first application left it.
C9_Corrections ==
    [][ (FieldStepOf("apply_corrections") /\ f_ret'.status = "returned")
        => /\ CorrectPost(df, df', values_to_rename)
           /\ f_op = "apply_corrections"
                 => \A r \in DOMAIN df.rows : Cell(df', r, "Elevation") = Cell(df, r, "Elevation") ]_vars

\* apply_corrections() ran twice in a row after the swap: a crop name was
\* corrected and a negative elevation made positive
C9_Witness ==
    /\ f_op = "apply_corrections"
    /\ f_prev = "apply_corrections"
    /\ f_ret.status = "returned"
    /\ values_to_rename = CropCorrections
    /\ \E r \in DOMAIN df.rows :
          /\ Cell(df, r, "Crop_type") = StrCell("cassava")
          /\ Cell(df, r, "Elevation") = IntCell(5)

\* process() steps from the fetched mapping to the merged table
MergeStep == f_pc = "p_fetched" /\ f_pc' = "p_merged"

\* the rows of t whose first n cells are v
RowsExtending(t, v, n) == {k \in DOMAIN t.rows : SubSeq(t.rows[k], 1, n) = v}

\* the cells of row q of t outside the column key, in order
WithoutKey(t, q, key) ==
    LET keep == SelectSeq(Indices(Len(t.columns)), LAMBDA j : t.columns[j] # key)
    IN  [k \in DOMAIN keep |-> t.rows[q][keep[k]]]

MatchCount(F, i, W) ==
    Cardinality({q \in DOMAIN W.rows : Cell(W, q, "Field_ID") = Cell(F, i, "Field_ID")})

AtLeastOne(n) == IF n = 0 THEN 1 ELSE n

\* every row of new extends a row of F; a row whose Field_ID is in no row of W
\* has null in every mapping column, any other row carries a row of W with
\* its Field_ID
MergedFromField(F, W, new) ==
    /\ IsDataFrame(new)
    /\ \A k \in DOMAIN new.rows :
          LET n    == Len(F.columns)
              fid  == new.rows[k][ColumnIndex(F, "Field_ID")]
              rest == SubSeq(new.rows[k], n + 1, Len(new.rows[k]))
              hits == {q \in DOMAIN W.rows : Cell(W, q, "Field_ID") = fid}
          IN  /\ \E i \in DOMAIN F.rows : F.rows[i] = SubSeq(new.rows[k], 1, n)
              /\ Len(new.rows[k]) = Len(new.columns)
              /\ IF hits = {} THEN \A j \in DOMAIN rest : rest[j] = NaN
                 ELSE \E q \in hits : rest = WithoutKey(W, q, "Field_ID")

\* C7 as stated: the merge of process() keeps for every row of F exactly its
\* original number of rows, gives a row of F without a match null in every
\* mapping column, and adds no row that comes only from W.
C7_RowCountKept ==
    [][ MergeStep
        => /\ MergedFromField(df, weather_map_df, df')
           /\ \A i \in DOMAIN df.rows :
                 Cardinality(RowsExtending(df', df.rows[i], Len(df.columns)))
                    = Cardinality({h \in DOMAIN df.rows : df.rows[h] = df.rows[i]}) ]_vars

\* C7 (amended): the merge of process() yields for every row of F one row per
\* row of W with its Field_ID, and exactly one row when W has none or one; a
\* row of F without a match has null in every mapping column, and no row
\* comes only from W.
C7_LeftJoin ==
    [][ MergeStep
        => /\ MergedFromField(df, weather_map_df, df')
           /\ \A i \in DOMAIN df.rows :
                 Cardinality(RowsExtending(df', df.rows[i], Len(df.columns)))
                    = SetSum([h \in {g \in DOMAIN df.rows : df.rows[g] = df.rows[i]} |->
                                 AtLeastOne(MatchCount(df, h, weather_map_df))]) ]_vars

\* a merged table in which one field row met two mapping rows and another
\* field row met none
C7_Witness ==
    /\ f_pc = "p_merged"
    /\ Len(weather_map_df.rows) = 2
    /\ weather_map_df.rows[1][ColumnIndex(weather_map_df, "Field_ID")]
          = weather_map_df.rows[2][ColumnIndex(weather_map_df, "Field_ID")]
    /\ Len(df.rows) = 3
    /\ \E k \in DOMAIN df.rows : df.rows[k][Len(df.columns)] = NaN

\* C5: when every stage succeeds process() returns the merged table to its
\* caller; when a stage fails process() fails and returns no table.
C5_ProcessReturnsMerged ==
    /\ (f_pc = "done" /\ f_op = "process") => f_ret = Returned(df)
    /\ f_pc = "p_failed" => f_ret.status = "raised"

\* C10: after the merge process() drops the column "Unnamed: 0" only if it is
\* there: with it, the result lacks it and keeps every other column; without
\* it, process() still completes and leaves the columns as they are.
C10_DropOnlyIfPresent ==
    [][ (f_pc = "p_merged" /\ f_pc' # f_pc)
        => /\ f_pc' = "done"
           /\ IF HasColumn(df, "Unnamed: 0")
              THEN /\ ~HasColumn(df', "Unnamed: 0")
                   /\ Range(df'.columns) = Range(df.columns) \ {"Unnamed: 0"}
              ELSE df' = df ]_vars

----------------------------------------------------------------------------
(* Properties of WeatherDataProcessor, checked under WeatherSpec *)

\* the patterns, by position, that match the message
Matching(pats, message) == {i \in DOMAIN pats : re_search(pats[i][2], message).matched}

FirstMatching(pats, message) ==
    CHOOSE k \in Matching(pats, message) : \A i \in Matching(pats, message) : k <= i

\* groups() of the first matching pattern
FirstGroups(pats, message) == re_search(pats[FirstMatching(pats, message)][2], message).groups

\* j is the first group that took part in the match
FirstNonNull(groups, j) == groups[j] # NoneCell /\ \A i \in 1..(j - 1) : groups[i] = NoneCell

\* the first group that took part in the match holds a number
Usable(groups) ==
    \E j \in DOMAIN groups : FirstNonNull(groups, j) /\ float(groups[j][2]).status = "returned"

C3_ExtractionError ==
    (/\ w_op = "extract_measurement"
     /\ Matching(patterns, w_arg) # {}
     /\ ~Usable(FirstGroups(patterns, w_arg)))
    => w_ret = Raised("ExtractionError")

\* a direct call of the weather processor
WeatherCallOf(ops) == w_op' \in ops /\ w_calls' = w_calls + 1

\* C4: while weather_df is None, process_messages() and calculate_means(),
\* in any sequence, raise nothing: each call returns None and leaves
\* weather_df None.
C4_NotLoadedIsNoOp ==
    [][ (weather_df = NoneVal /\ WeatherCallOf({"process_messages", "calculate_means"}))
        => (w_ret' = Returned(NoneVal) /\ weather_df' = NoneVal /\ w_pc' = w_pc) ]_vars

\* the third call in a row on a processor that never loaded, the last two
\* being process_messages() and calculate_means()
C4_Witness ==
    /\ weather_df = NoneVal
    /\ w_calls = 3
    /\ w_op = "calculate_means"
    /\ w_ret = Returned(NoneVal)
    /\ w_pc = "idle"

LoadThenExtract == <<"weather_station_mapping", "process_messages">>

\* every row of t carries what extract_measurement makes of its message
Extracted(t, pats) ==
    /\ IsDataFrame(t)
    /\ HasColumn(t, "Measurement") /\ HasColumn(t, "Value")
    /\ \A r \in DOMAIN t.rows :
          Returned(<<Cell(t, r, "Measurement"), Cell(t, r, "Value")>>)
             = extract_measurement(pats, Cell(t, r, "Message")[2]).ret

Aggregated ==
    /\ w_op = "calculate_means"
    /\ w_ret.status = "returned"
    /\ IsDataFrame(weather_df)

StationOf(r) == Cell(weather_df, r, "Weather_station_ID")

MeasurementOf(r) == Cell(weather_df, r, "Measurement")

\* the rows that carry a measurement
Observed == {r \in DOMAIN weather_df.rows : ~IsNull(MeasurementOf(r))}

\* the cell of (station, measurement) is the arithmetic mean of the values of
\* the rows of that group, and null when the group has no row
CellsAreMeans(t) ==
    /\ DOMAIN t.cell = t.index \X t.names
    /\ \A c \in t.index \X t.names :
          LET g == {r \in Observed : StationOf(r) = c[1] /\ MeasurementOf(r) = c[2]}
          IN  IF g = {} THEN t.cell[c] = NaN
              ELSE /\ t.cell[c][1] = "frac"
                   /\ t.cell[c][3] > 0
                   /\ t.cell[c][2] * Cardinality(g)
                         = SetSum([r \in g |-> Cell(weather_df, r, "Value")[2]]) * t.cell[c][3]

\* C8 as stated, already for a weather_df in which some message matched: the
\* table of calculate_means() has one row per station identifier and one
\* column per measurement name, each cell the arithmetic mean of its group,
\* null where the group has no observation.
C8_OneRowPerStation ==
    (Aggregated /\ Observed # {}) =>
        /\ w_ret.value.index = {StationOf(r) : r \in DOMAIN weather_df.rows}
        /\ w_ret.value.names = {MeasurementOf(r) : r \in Observed}
        /\ CellsAreMeans(w_ret.value)

\* C8 (amended): the table of calculate_means() has one row per station
\* identifier that has at least one row with an extracted measurement (a
\* station whose messages all matched no pattern has no row), one column per
\* extracted measurement name, each cell the arithmetic mean of its group,
\* null where the group has no observation.
C8_MeansOfObserved ==
    Aggregated =>
        /\ w_ret.value.index = {StationOf(r) : r \in Observed}
        /\ w_ret.value.names = {MeasurementOf(r) : r \in Observed}
        /\ CellsAreMeans(w_ret.value)

\* station 0 reported 5 and 8 mm of rain, mean 13/2, and station 1 only a
\* temperature, so two cells are null
C8_Witness ==
    /\ Aggregated
    /\ w_ret.value.index = {IntCell(0), IntCell(1)}
    /\ w_ret.value.names = {StrCell("Rainfall"), StrCell("Temperature")}
    /\ w_ret.value.cell[<<IntCell(0), StrCell("Rainfall")>>] = <<"frac", 13, 2>>
    /\ w_ret.value.cell[<<IntCell(0), StrCell("Temperature")>>] = NaN
    /\ w_ret.value.cell[<<IntCell(1), StrCell("Rainfall")>>] = NaN

====
